---- MODULE Spec2Model ----
(***************************************************************************)
(* Model of rust-scan: the record codec and the RocksDB-backed result      *)
(* store (src/src/database.rs), the ICMP echo sweep                        *)
(* (src/src/online_scan/ping_scanner.rs) and the TCP SYN scan              *)
(* (src/src/port_scan/tcp_scan.rs).                                        *)
(*                                                                         *)
(* Text is a sequence of code points (48..57 are '0'..'9', 44 is ',',      *)
(* 45 is '-', 43 is '+', 104 is 'h'); a byte buffer is a sequence of       *)
(* 0..255.  Each subsystem has its own specification (SpecCodec, SpecStore,*)
(* SpecPing, SpecTcp); the variables of the other subsystems stay at the   *)
(* values Init gives them.  SpecPingFair is SpecPing with its threads      *)
(* scheduled fairly, for the liveness of ping_scan.                        *)
(***************************************************************************)
EXTENDS Integers, Sequences, FiniteSets, TLC

VARIABLES
    \* record codec
    cin,        \* the input drawn for this run (a record or a raw buffer)
    cenc,       \* the buffer encode() produced
    cdec,       \* what decode() returned
    cpc,        \* "start" | "encoded" | "decoded"
    \* result store
    db,         \* the three column families default / ports / services
    call,       \* the call in progress or just returned, with its result
    written,    \* history: per key, the last record a write batch committed
    \* ping_scan
    hosts,      \* the target list handed to ping_scan
    requests,   \* the identifier table (HashMap<u16, IpAddr>)
    results,    \* the shared result list (Vec<PingResult>)
    done_sending,   \* the atomic flag finished_sending_time
    spc,        \* sender thread: "register" | "send" | "push" | "done"
    si,         \* sender thread: index i of the enumerate loop (0-based)
    rpc,        \* receiver thread: "check" | "recv" | "push" | "done" | "panicked"
    rhost,      \* receiver thread: the host its table lookup returned
    latched,    \* receiver thread: finish_sending_time.is_some()
    elapsed,    \* receiver thread: time since the deadline was latched
    ppc,        \* ping_scan itself: "running" | "returned" | "panicked"
    pout,       \* the list ping_scan returned
    plog,       \* history: what was sent, what failed, what arrived, overwrites
    \* tcp_scan
    targets,    \* the target list handed to tcp_scan
    ports,      \* the port list handed to tcp_scan
    timeout,    \* the timeout handed to tcp_scan
    tresults,   \* the shared results map (HashMap<IpAddr, Vec<i32>>)
    tk,         \* main thread: target/port pairs dealt with so far
    tpc,        \* main thread: "send" | "join" | "returned"
    lpc,        \* listener thread: "loop" | "done"
    lclock,     \* listener thread: start_time.elapsed()
    tout,       \* the list tcp_scan returned
    tlog        \* history: packets received, sends retried, sends failed, errors logged

codecVars == <<cin, cenc, cdec, cpc>>
storeVars == <<db, call, written>>
pingVars == <<hosts, requests, results, done_sending, spc, si, rpc, rhost, latched,
              elapsed, ppc, pout, plog>>
tcpVars == <<targets, ports, timeout, tresults, tk, tpc, lpc, lclock, tout, tlog>>
vars == <<codecVars, storeVars, pingVars, tcpVars>>

notCodec == <<storeVars, pingVars, tcpVars>>
notStore == <<codecVars, pingVars, tcpVars>>
notPing == <<codecVars, storeVars, tcpVars>>
notTcp == <<codecVars, storeVars, pingVars>>

(***************************************************************************)
(* Bounds of the model                                                     *)
(***************************************************************************)
MaxBufLen == 8          \* longest raw buffer handed to decode
MaxRows == 3            \* most records handed to one save_rows / add_* call

MaxHosts == 2           \* most hosts handed to ping_scan
MaxTargets == 2         \* most targets handed to tcp_scan
MaxPackets == 2         \* most packets a listener receives in one scan

MaxTimeout == 1         \* longest timeout handed to tcp_scan, in clock ticks
MaxSendFailures == 1    \* most sends of one scan that fail, with OS error 105 or another

\* stands for 2^16, the number of u16 identifiers (`i as u16`,
\* ping_scanner.rs:109), scaled down so that target lists reach it
IdSpace == 2

\* stands for BATCH_SIZE = 1000 (database.rs:12), scaled down so that the
\* inputs of the model span more than one chunk
BATCH_SIZE == 2

\* the bytes raw buffers are built from: 0, 1, 2 and '1'
BufBytes == {0, 1, 2, 49}

\* the separator literal "," of ports_to_string / fetch_row / decode
Comma == 44

\* U+FFFD, what from_utf8_lossy puts for an invalid byte
Replacement == 65533

I32Max == 2147483647

(***************************************************************************)
(* Pure helpers: join_nums / split_nums and the integer conversions        *)
(***************************************************************************)
RECURSIVE DigitsOf(_)
\* decimal digits of n >= 0, most significant first
DigitsOf(n) ==
    IF n < 10 THEN <<48 + n>>
    ELSE DigitsOf(n \div 10) \o <<48 + (n % 10)>>

\* i32::to_string
NumToString(n) ==
    IF n < 0 THEN <<45>> \o DigitsOf(0 - n) ELSE DigitsOf(n)

RECURSIVE JoinStrs(_, _)
\* [String]::join(sep)
JoinStrs(strs, sep) ==
    IF strs = <<>> THEN <<>>
    ELSE IF Len(strs) = 1 THEN strs[1]
    ELSE strs[1] \o <<sep>> \o JoinStrs(Tail(strs), sep)

\* join_nums: every number to its decimal string, then joined by sep
join_nums(nums, sep) ==
    JoinStrs([i \in 1..Len(nums) |-> NumToString(nums[i])], sep)

\* the addresses the scans and the store are given
Addrs == {<<10, 0, 0, 1>>, <<10, 0, 0, 2>>}

\* IpAddr::to_string for an IPv4 address: the octets in decimal, joined by '.'
IpToString(a) == JoinStrs([i \in 1..Len(a) |-> NumToString(a[i])], 46)

RECURSIVE SplitStr(_, _, _)
\* str::split(sep): the pieces between separators (cur is the piece being read)
SplitStr(str, sep, cur) ==
    IF str = <<>> THEN <<cur>>
    ELSE IF Head(str) = sep THEN <<cur>> \o SplitStr(Tail(str), sep, <<>>)
    ELSE SplitStr(Tail(str), sep, Append(cur, Head(str)))

RECURSIVE ParseDigits(_, _)
\* accumulate decimal digits; -1 when a non-digit occurs or the value leaves i32
ParseDigits(s, acc) ==
    IF s = <<>> THEN acc
    ELSE IF Head(s) < 48 \/ Head(s) > 57 THEN -1
    ELSE IF acc > (I32Max - (Head(s) - 48)) \div 10 THEN -1
    ELSE ParseDigits(Tail(s), acc * 10 + (Head(s) - 48))

\* str::parse::<i32>() with the caller's fallback: Ok(num) => num, Err => 0
ParseI32Or0(s) ==
    IF s = <<>> THEN 0
    ELSE IF Head(s) = 45 \/ Head(s) = 43
         THEN IF Tail(s) = <<>> THEN 0
              ELSE LET v == ParseDigits(Tail(s), 0) IN
                   IF v < 0 THEN 0
                   ELSE IF Head(s) = 45 THEN 0 - v ELSE v
    ELSE LET v == ParseDigits(s, 0) IN IF v < 0 THEN 0 ELSE v

\* split_nums
split_nums(str, sep) ==
    IF str = <<>> THEN <<>>
    ELSE LET parts == SplitStr(str, sep, <<>>) IN
         [i \in 1..Len(parts) |-> ParseI32Or0(parts[i])]

RECURSIVE SeqsUpTo(_, _)
\* all sequences over S of length at most n
SeqsUpTo(S, n) ==
    IF n = 0 THEN {<<>>}
    ELSE LET shorter == SeqsUpTo(S, n - 1) IN
         shorter \cup {Append(q, x) : q \in {t \in shorter : Len(t) = n - 1}, x \in S}

\* str::contains: sub occurs in str as a contiguous run
Contains(str, sub) ==
    \E i \in 0..(Len(str) - Len(sub)) :
        \A j \in 1..Len(sub) : str[i + j] = sub[j]

\* String::from_utf8_lossy on a buffer whose bytes are ASCII or the invalid
\* byte 0xFF: ASCII bytes are kept, each invalid byte becomes U+FFFD
from_utf8_lossy(bytes) ==
    [i \in 1..Len(bytes) |-> IF bytes[i] < 128 THEN bytes[i] ELSE Replacement]

\* String::as_bytes for ASCII text
as_bytes(str) == str

RECURSIVE InsertSorted(_, _)
InsertSorted(sorted, x) ==
    IF sorted = <<>> THEN <<x>>
    ELSE IF x <= Head(sorted) THEN <<x>> \o sorted
    ELSE <<Head(sorted)>> \o InsertSorted(Tail(sorted), x)

RECURSIVE Sort(_)
\* Vec::sort: the same elements, ascending
Sort(list) ==
    IF list = <<>> THEN <<>> ELSE InsertSorted(Sort(Tail(list)), Head(list))

RECURSIVE Dedup(_)
\* Vec::dedup: consecutive repeated elements removed
Dedup(list) ==
    IF Len(list) < 2 THEN list
    ELSE IF list[1] = list[2] THEN Dedup(Tail(list))
    ELSE <<list[1]>> \o Dedup(Tail(list))

(***************************************************************************)
(* DatabaseResult::encode / decode                                         *)
(***************************************************************************)
\* u32::to_le_bytes
to_le_bytes(n) ==
    <<n % 256, (n \div 256) % 256, (n \div 65536) % 256, (n \div 16777216) % 256>>

\* u32::from_le_bytes of data[pos+1 .. pos+4].  A value of 2^30 or more is
\* reported as 2^30: it exceeds every buffer length either way.
from_le_bytes(data, pos) ==
    IF data[pos + 4] >= 64 THEN 1073741824
    ELSE data[pos + 1] + 256 * data[pos + 2] + 65536 * data[pos + 3]
         + 16777216 * data[pos + 4]

\* ports_to_string with the list normalised (sorted, repetitions dropped)
\* before it is joined
ports_to_string_sorted(row) == join_nums(Dedup(Sort(row.ports)), Comma)

ports_to_string(row) == join_nums(row.ports, Comma)

\* encode: field count, then each field as length prefix and bytes
encode(row) ==
    LET values == <<ports_to_string(row), row.services>>
        Field(v) == to_le_bytes(Len(as_bytes(v))) \o as_bytes(v)
    IN  to_le_bytes(Len(values)) \o Field(values[1]) \o Field(values[2])

RECURSIVE ReadValues(_, _, _, _)
\* the `for _ in 0..values_count` loop of decode: [ok, values]
ReadValues(data, pos, left, values) ==
    IF left = 0 THEN [ok |-> TRUE, values |-> values]
    ELSE IF pos + 4 > Len(data) THEN [ok |-> FALSE, values |-> values]
    ELSE LET value_len == from_le_bytes(data, pos)
             p == pos + 4
         IN  IF p + value_len > Len(data) THEN [ok |-> FALSE, values |-> values]
             ELSE ReadValues(data, p + value_len, left - 1,
                     Append(values,
                            from_utf8_lossy(SubSeq(data, p + 1, p + value_len))))

\* `if 1 > 1 { values[1].clone() } else { String::new() }`
DecodeServices(values) == <<>>

\* `if 1 > 0 { split_nums(values[0], ",") } else { Vec::new() }`
DecodePorts(values) == split_nums(values[1], Comma)

\* decode: None, Some(record), or a panic when values[0] is indexed out of bounds
decode(key, data) ==
    IF Len(data) < 8 THEN [kind |-> "None"]
    ELSE LET values_count == from_le_bytes(data, 0)
             r == ReadValues(data, 4, values_count, <<>>)
         IN  IF ~r.ok THEN [kind |-> "None"]
             ELSE IF Len(r.values) < 1 THEN [kind |-> "panic"]
             ELSE [kind |-> "Some",
                   row |-> [id |-> key,
                            ports |-> DecodePorts(r.values),
                            services |-> DecodeServices(r.values)]]

(***************************************************************************)
(* Result store: three column families over one key space.  A WriteBatch   *)
(* is applied atomically by the engine (db.write either commits all its    *)
(* puts or none).                                                          *)
(***************************************************************************)
EmptyDb == [default |-> {}, ports |-> <<>>, services |-> <<>>]

\* f with key k set to v (put_cf on one column family)
Put(f, k, v) == [x \in DOMAIN f \cup {k} |-> IF x = k THEN v ELSE f[x]]

\* PutRow with a put that keeps the value a key already has
PutRowKeepFirst(d, row) ==
    IF as_bytes(row.id) \in d.default THEN d
    ELSE [default  |-> d.default \cup {as_bytes(row.id)},
          ports    |-> Put(d.ports, as_bytes(row.id), as_bytes(ports_to_string(row))),
          services |-> Put(d.services, as_bytes(row.id), as_bytes(row.services))]

\* PutRow with a merge in place of the overwrite: the services written are
\* appended to the services the key already has
PutRowAccumulate(d, row) ==
    [default  |-> d.default \cup {as_bytes(row.id)},
     ports    |-> Put(d.ports, as_bytes(row.id), as_bytes(ports_to_string(row))),
     services |-> Put(d.services, as_bytes(row.id),
                      (IF as_bytes(row.id) \in DOMAIN d.services
                       THEN d.services[as_bytes(row.id)] ELSE <<>>)
                      \o as_bytes(row.services))]

\* the three put_cf of one row of a batch
PutRow(d, row) ==
    [default  |-> d.default \cup {as_bytes(row.id)},
     ports    |-> Put(d.ports, as_bytes(row.id), as_bytes(ports_to_string(row))),
     services |-> Put(d.services, as_bytes(row.id), as_bytes(row.services))]

RECURSIVE WriteBatch(_, _)
\* db.write(batch): the puts of a chunk, in row order, committed together
WriteBatch(d, chunk) ==
    IF chunk = <<>> THEN d
    ELSE WriteBatch(PutRow(d, Head(chunk)), Tail(chunk))

\* slice::chunks(BATCH_SIZE): consecutive chunks, the last one possibly shorter
Chunks(rows) ==
    LET n == (Len(rows) + BATCH_SIZE - 1) \div BATCH_SIZE IN
    [c \in 1..n |->
        SubSeq(rows, (c - 1) * BATCH_SIZE + 1,
               IF c * BATCH_SIZE < Len(rows) THEN c * BATCH_SIZE ELSE Len(rows))]

RECURSIVE WriteChunksThrough(_, _, _)
\* WriteChunks with the error looked at one chunk late: the failing chunk is
\* applied as well
WriteChunksThrough(d, chunks, stop) ==
    IF chunks = <<>> \/ stop = 0 THEN d
    ELSE WriteChunksThrough(WriteBatch(d, Head(chunks)), Tail(chunks), stop - 1)

RECURSIVE WriteChunks(_, _, _)
\* `for batch in batches { db_ref.write(batch)?; }` up to and excluding chunk `stop`
WriteChunks(d, chunks, stop) ==
    IF chunks = <<>> \/ stop = 1 THEN d
    ELSE WriteChunks(WriteBatch(d, Head(chunks)), Tail(chunks), stop - 1)

NoFault == [kind |-> "none", chunk |-> 0]

\* what the engine can answer to one save_rows: the open fails, the write of
\* chunk k fails, the flush fails, or nothing fails
SaveFaults(rows) ==
    {NoFault, [kind |-> "open", chunk |-> 0], [kind |-> "flush", chunk |-> 0]}
    \cup {[kind |-> "write", chunk |-> k] : k \in 1..Len(Chunks(rows))}

\* save_rows with the puts issued one by one instead of through a WriteBatch:
\* a failing chunk leaves the default put of its first row behind
save_rows_unbatched(d, rows, fault) ==
    LET chunks == Chunks(rows) IN
    IF fault.kind = "open" THEN [db |-> d, result |-> "Err"]
    ELSE IF fault.kind = "write"
         THEN LET done == WriteChunks(d, chunks, fault.chunk)
                  first == Head(chunks[fault.chunk])
              IN  [db |-> [done EXCEPT !.default = @ \cup {as_bytes(first.id)}],
                   result |-> "Err"]
    ELSE IF fault.kind = "flush"
         THEN [db |-> WriteChunks(d, chunks, Len(chunks) + 1), result |-> "Err"]
    ELSE [db |-> WriteChunks(d, chunks, Len(chunks) + 1), result |-> "Ok"]

\* save_rows with the result of the flush dropped (`let _ = db_ref.flush();`)
save_rows_ignore_flush(d, rows, fault) ==
    LET chunks == Chunks(rows) IN
    IF fault.kind = "open" THEN [db |-> d, result |-> "Err"]
    ELSE IF fault.kind = "write"
         THEN [db |-> WriteChunks(d, chunks, fault.chunk), result |-> "Err"]
    ELSE [db |-> WriteChunks(d, chunks, Len(chunks) + 1), result |-> "Ok"]

\* save_rows: [db, result]
save_rows(d, rows, fault) ==
    LET chunks == Chunks(rows) IN
    IF fault.kind = "open" THEN [db |-> d, result |-> "Err"]
    ELSE IF fault.kind = "write"
         THEN [db |-> WriteChunks(d, chunks, fault.chunk), result |-> "Err"]
    ELSE IF fault.kind = "flush"
         THEN [db |-> WriteChunks(d, chunks, Len(chunks) + 1), result |-> "Err"]
    ELSE [db |-> WriteChunks(d, chunks, Len(chunks) + 1), result |-> "Ok"]

\* std::str::from_utf8(..).is_ok() for the bytes of the model
is_utf8(bytes) == \A i \in 1..Len(bytes) : bytes[i] < 128

\* row_to_string: the column value lossily decoded, "" when the key is missing
row_to_string(d, row_id, cf) ==
    IF row_id \in DOMAIN d[cf] THEN from_utf8_lossy(d[cf][row_id]) ELSE <<>>

\* fetch_row: presence check in default, then the two columns
fetch_row(d, row_id) ==
    IF as_bytes(row_id) \in d.default
    THEN [kind |-> "Some",
          row |-> [id |-> row_id,
                   ports |-> split_nums(row_to_string(d, row_id, "ports"), Comma),
                   services |-> row_to_string(d, row_id, "services")]]
    ELSE [kind |-> "None"]

\* get_row_by_host: None when the open fails
get_row_by_host(d, row, fault) ==
    IF fault.kind = "open" THEN [kind |-> "None"] ELSE fetch_row(d, row)

RECURSIVE LexLess(_, _)
\* byte-wise lexicographic order of keys (the engine's default comparator)
LexLess(a, b) ==
    IF b = <<>> THEN FALSE
    ELSE IF a = <<>> THEN TRUE
    ELSE IF Head(a) # Head(b) THEN Head(a) < Head(b)
    ELSE LexLess(Tail(a), Tail(b))

RECURSIVE KeysInOrder(_)
\* IteratorMode::Start: the keys of a column family in ascending order
KeysInOrder(S) ==
    IF S = {} THEN <<>>
    ELSE LET m == CHOOSE x \in S : \A y \in S \ {x} : LexLess(x, y)
         IN  <<m>> \o KeysInOrder(S \ {m})

\* ScanKeeps with starts_with in place of contains
ScanKeepsPrefix(d, column, substring, k) ==
    /\ is_utf8(d[column][k])
    /\ Len(substring) <= Len(d[column][k])
    /\ SubSeq(d[column][k], 1, Len(substring)) = substring
    /\ is_utf8(k)
    /\ fetch_row(d, k).kind = "Some"

\* does the scan keep this key: value is UTF-8 and contains the substring, key
\* is UTF-8, and fetch_row finds the row
ScanKeeps(d, column, substring, k) ==
    /\ is_utf8(d[column][k])
    /\ Contains(d[column][k], substring)
    /\ is_utf8(k)
    /\ fetch_row(d, k).kind = "Some"

\* search_substring_in_column: Err when the open or an iterator item fails,
\* else the matching rows in key order
search_substring_in_column(d, column, substring, fault) ==
    IF fault.kind # "none" THEN [ok |-> FALSE, rows |-> <<>>]
    ELSE LET keys == KeysInOrder(DOMAIN d[column])
             kept == SelectSeq(keys, LAMBDA k : ScanKeeps(d, column, substring, k))
         IN  [ok |-> TRUE, rows |-> [i \in 1..Len(kept) |-> fetch_row(d, kept[i]).row]]

\* get_rows_by_port: the scan of the ports column, empty on Err
get_rows_by_port(d, port, fault) ==
    LET r == search_substring_in_column(d, "ports", port, fault) IN
    IF r.ok THEN r.rows ELSE <<>>

\* get_rows_by_service: the scan of the services column, empty on Err
get_rows_by_service(d, port, fault) ==
    LET r == search_substring_in_column(d, "services", port, fault) IN
    IF r.ok THEN r.rows ELSE <<>>

(***************************************************************************)
(* Store calls.  Every operation opens the store, works and closes it, so  *)
(* calls are serial: a call runs to its return, then the caller makes the  *)
(* next one.                                                               *)
(***************************************************************************)
\* ports lists of the service scan: unsorted with a repetition, and one
\* holding 8080
StorePorts == {<<80, 443, 80>>, <<8080>>}

\* the records handed to save_rows: [80,443,80] with services "h", [8080] with
\* services "" and "h", for each address
StoreRecords ==
    {[id |-> IpToString(a), ports |-> v[1], services |-> v[2]] :
        a \in Addrs,
        v \in {<<<<80, 443, 80>>, <<104>>>>, <<<<8080>>, <<>>>>, <<<<8080>>, <<104>>>>}}

\* results of the port scan handed to add_tcp_results
PortScanResults == {[ip |-> a, open_ports |-> p] : a \in Addrs, p \in {<<>>, <<8080>>}}

\* results of the service scan handed to add_service_results
ServiceScanResults ==
    {[ip |-> a, open_ports |-> p, services |-> <<104>>] : a \in Addrs, p \in StorePorts}

\* the substrings the scans are asked for: "", "80", "808", "43", ",80", "h"
Needles == {<<>>, <<56, 48>>, <<56, 48, 56>>, <<52, 51>>, <<44, 56, 48>>, <<104>>}

\* PortScanResult::to_database
PortToDatabase(r) ==
    [id |-> IpToString(r.ip), ports |-> r.open_ports, services |-> <<>>]

\* ServiceScanResult::to_database
ServiceToDatabase(r) ==
    [id |-> IpToString(r.ip), ports |-> r.open_ports, services |-> r.services]

\* the rows add_ping_results builds: empty ports and services per host
PingRows(scanned) ==
    [i \in 1..Len(scanned) |->
        [id |-> IpToString(scanned[i]), ports |-> <<>>, services |-> <<>>]]

IdleCall ==
    [op |-> "none", rows |-> <<>>, arg |-> <<>>, fault |-> NoFault, status |-> "-",
     found |-> [kind |-> "None"], out |-> <<>>, before |-> EmptyDb, again |-> FALSE]

\* the records of rows whose batch was committed before save_rows returned:
\* none when the open fails, the chunks before chunk k when the write of chunk
\* k fails, else all
Committed(rows, fault) ==
    IF fault.kind = "open" THEN <<>>
    ELSE IF fault.kind = "write"
         THEN SubSeq(rows, 1, (fault.chunk - 1) * BATCH_SIZE)
    ELSE rows

RECURSIVE Record(_, _)
\* the history after these records were committed in order
Record(w, rows) ==
    IF rows = <<>> THEN w
    ELSE Record(Put(w, Head(rows).id, Head(rows)), Tail(rows))

\* the write path shared by save_rows and the add_* wrappers
Write(op, rows, fault, again) ==
    LET r == save_rows(db, rows, fault) IN
    /\ db' = r.db
    /\ written' = Record(written, Committed(rows, fault))
    /\ call' = [IdleCall EXCEPT !.op = op, !.rows = rows, !.fault = fault,
                                !.status = r.result, !.before = db, !.again = again]
    /\ UNCHANGED notStore

SaveRows ==
    /\ call.op = "none"
    /\ \E rows \in SeqsUpTo(StoreRecords, MaxRows) : \E fault \in SaveFaults(rows) :
          Write("save_rows", rows, fault, FALSE)

\* the caller runs the save_rows that just succeeded once more on the same rows
SaveRowsAgain ==
    /\ call.op = "save_rows"
    /\ call.status = "Ok"
    /\ ~call.again
    /\ \E fault \in SaveFaults(call.rows) : Write("save_rows", call.rows, fault, TRUE)

AddPingResults ==
    /\ call.op = "none"
    /\ \E scanned \in SeqsUpTo(Addrs, MaxRows) :
       \E fault \in SaveFaults(PingRows(scanned)) :
          Write("add_ping_results", PingRows(scanned), fault, FALSE)

AddTcpResults ==
    /\ call.op = "none"
    /\ \E scanned \in SeqsUpTo(PortScanResults, MaxRows) :
       LET rows == [i \in 1..Len(scanned) |-> PortToDatabase(scanned[i])] IN
       \E fault \in SaveFaults(rows) : Write("add_tcp_results", rows, fault, FALSE)

AddServiceResults ==
    /\ call.op = "none"
    /\ \E scanned \in SeqsUpTo(ServiceScanResults, MaxRows) :
       LET rows == [i \in 1..Len(scanned) |-> ServiceToDatabase(scanned[i])] IN
       \E fault \in SaveFaults(rows) : Write("add_service_results", rows, fault, FALSE)

ReadFaults == {NoFault, [kind |-> "open", chunk |-> 0]}
ScanFaults == ReadFaults \cup {[kind |-> "iter", chunk |-> 0]}

GetRowByHost ==
    /\ call.op = "none"
    /\ \E a \in Addrs : \E fault \in ReadFaults :
          call' = [IdleCall EXCEPT !.op = "get_row_by_host", !.arg = IpToString(a),
                                   !.fault = fault, !.before = db,
                                   !.found = get_row_by_host(db, IpToString(a), fault)]
    /\ UNCHANGED <<db, written, notStore>>

GetRowsByPort ==
    /\ call.op = "none"
    /\ \E s \in Needles : \E fault \in ScanFaults :
          call' = [IdleCall EXCEPT !.op = "get_rows_by_port", !.arg = s,
                                   !.fault = fault, !.before = db,
                                   !.out = get_rows_by_port(db, s, fault)]
    /\ UNCHANGED <<db, written, notStore>>

GetRowsByService ==
    /\ call.op = "none"
    /\ \E s \in Needles : \E fault \in ScanFaults :
          call' = [IdleCall EXCEPT !.op = "get_rows_by_service", !.arg = s,
                                   !.fault = fault, !.before = db,
                                   !.out = get_rows_by_service(db, s, fault)]
    /\ UNCHANGED <<db, written, notStore>>

\* the call has returned; the caller is free to make the next one
Return ==
    /\ call.op # "none"
    /\ call' = IdleCall
    /\ UNCHANGED <<db, written, notStore>>

StoreNext ==
    \/ SaveRows \/ SaveRowsAgain \/ AddPingResults \/ AddTcpResults
    \/ AddServiceResults \/ GetRowByHost \/ GetRowsByPort \/ GetRowsByService
    \/ Return

(***************************************************************************)
(* Codec runs: one record is encoded and decoded again, or one raw buffer  *)
(* is decoded                                                              *)
(***************************************************************************)
\* services blobs: "", "h", "h,"
ServiceBlobs == {<<>>, <<104>>, <<104, 44>>}

\* ports lists given to the codec
CodecPorts == {<<>>, <<80>>, <<443, 80>>, <<80, 80>>, <<8080, 22, 443>>}

CodecRecords ==
    {[id |-> IpToString(a), ports |-> p, services |-> s] :
        a \in Addrs, p \in CodecPorts, s \in ServiceBlobs}

\* the raw buffers of at most n bytes handed to decode
RawBuffers(n) == SeqsUpTo(BufBytes, n)

\* DatabaseResult::encode on the drawn record
Encode ==
    /\ cpc = "start"
    /\ cin.kind = "rec"
    /\ cenc' = encode(cin.row)
    /\ cpc' = "encoded"
    /\ UNCHANGED <<cin, cdec, notCodec>>

\* DatabaseResult::decode on the buffer encode produced, under the record's key
DecodeEncoded ==
    /\ cpc = "encoded"
    /\ cdec' = decode(cin.row.id, cenc)
    /\ cpc' = "decoded"
    /\ UNCHANGED <<cin, cenc, notCodec>>

\* DatabaseResult::decode on a raw buffer
DecodeRaw ==
    /\ cpc = "start"
    /\ cin.kind = "buf"
    /\ cdec' = decode(cin.key, cin.data)
    /\ cpc' = "decoded"
    /\ UNCHANGED <<cin, cenc, notCodec>>

CodecNext == Encode \/ DecodeEncoded \/ DecodeRaw

(***************************************************************************)
(* ping_scan: a sender thread and a receiver thread over the shared        *)
(* identifier table, result list and done flag.  Every access to shared    *)
(* state (a lock section, the atomic, a socket call) is one step.          *)
(***************************************************************************)
\* the drain window TIMEOUT, in seconds
TIMEOUT == 3

\* the cast done one width too narrow
IdentifierNarrow(i) == i % (IdSpace \div 2)

\* `i as u16`
Identifier(i) == i % IdSpace

\* the payload of an echo packet, the bytes after type, code and checksum:
\* identifier (left 0 by send_ping) and sequence number, both big-endian
EchoPayload(identifier) == <<0, 0, identifier \div 256, identifier % 256>>

\* `((payload[2] as u16) << 8) + (payload[3] as u16)`
PayloadId(payload) == payload[3] * 256 + payload[4]

\* the ICMP packets that can reach the raw socket, each with the address it
\* came from: echo replies carrying any sequence number, an echo reply cut
\* short after its identifier, other types
IcmpPackets ==
    {[type |-> "EchoReply", payload |-> EchoPayload(k), addr |-> a] :
        k \in 0..(IdSpace - 1), a \in Addrs}
    \cup {[type |-> "EchoReply", payload |-> <<0, 0>>, addr |-> <<10, 0, 0, 1>>],
          [type |-> "DestinationUnreachable", payload |-> <<0, 0, 0, 0>>,
           addr |-> <<10, 0, 0, 1>>]}

\* HashMap::insert
Insert(map, k, v) == [x \in DOMAIN map \cup {k} |-> IF x = k THEN v ELSE map[x]]

PingResult(host, is_up) == [host |-> host, is_up |-> is_up, response_time |-> is_up]

\* attempts: the target indices send_ping was called for, in call order;
\* lost: a reply carrying the sequence number of a probe already transmitted
\* was dropped because the table had no entry for it
\* from: the addresses the echo replies looked up in the table came from
EmptyLog == [sent |-> {}, failed |-> {}, replies |-> {}, packets |-> 0,
             overwritten |-> FALSE, attempts |-> <<>>, lost |-> FALSE, from |-> {}]

\* the insert moved behind send_ping: when target i is about to be sent the
\* table gets the entry of target i - 1
SenderRegisterLate ==
    /\ spc = "register"
    /\ si < Len(hosts)
    /\ requests' = IF si = 0 THEN requests
                   ELSE Insert(requests, Identifier(si - 1), hosts[si])
    /\ plog' = [plog EXCEPT !.overwritten = @ \/ Identifier(si) \in DOMAIN requests]
    /\ spc' = "send"
    /\ UNCHANGED <<hosts, results, done_sending, si, rpc, rhost, latched, elapsed,
                   ppc, pout, notPing>>

\* sender: `ids.insert(identifier, host_clone)` under the table lock
SenderRegister ==
    /\ spc = "register"
    /\ si < Len(hosts)
    /\ requests' = Insert(requests, Identifier(si), hosts[si + 1])
    /\ plog' = [plog EXCEPT !.overwritten = @ \/ Identifier(si) \in DOMAIN requests]
    /\ spc' = "send"
    /\ UNCHANGED <<hosts, results, done_sending, si, rpc, rhost, latched, elapsed,
                   ppc, pout, notPing>>

\* the send with `Err(_) => {}`: a failed send goes on to the next target
SenderSendNoPush ==
    /\ spc = "send"
    /\ \E ok \in BOOLEAN :
          /\ plog' = IF ok THEN [plog EXCEPT !.sent = @ \cup {si},
                                             !.attempts = Append(@, si)]
                     ELSE [plog EXCEPT !.failed = @ \cup {si},
                                       !.attempts = Append(@, si)]
          /\ si' = si + 1
          /\ spc' = "register"
    /\ UNCHANGED <<hosts, requests, results, done_sending, rpc, rhost, latched,
                   elapsed, ppc, pout, notPing>>

\* sender: send_ping(host, identifier) returns Ok or Err
SenderSend ==
    /\ spc = "send"
    /\ \E ok \in BOOLEAN :
          IF ok
          THEN /\ plog' = [plog EXCEPT !.sent = @ \cup {si},
                                       !.attempts = Append(@, si)]
               /\ si' = si + 1
               /\ spc' = "register"
          ELSE /\ plog' = [plog EXCEPT !.failed = @ \cup {si},
                                       !.attempts = Append(@, si)]
               /\ si' = si
               /\ spc' = "push"
    /\ UNCHANGED <<hosts, requests, results, done_sending, rpc, rhost, latched,
                   elapsed, ppc, pout, notPing>>

\* sender: on Err, push {host, is_up: false, response_time: None}
SenderPushDown ==
    /\ spc = "push"
    /\ results' = Append(results, PingResult(hosts[si + 1], FALSE))
    /\ si' = si + 1
    /\ spc' = "register"
    /\ UNCHANGED <<hosts, requests, done_sending, rpc, rhost, latched, elapsed,
                   ppc, pout, plog, notPing>>

\* sender: after the loop, `sender_finished_sending_time.swap(true, Relaxed)`
SenderFinish ==
    /\ spc = "register"
    /\ si = Len(hosts)
    /\ done_sending' = TRUE
    /\ spc' = "done"
    /\ UNCHANGED <<hosts, requests, results, si, rpc, rhost, latched, elapsed,
                   ppc, pout, plog, notPing>>

\* receiver: the head of the loop: leave once the latched deadline has passed,
\* else latch the deadline when the flag is seen set
ReceiverCheck ==
    /\ rpc = "check"
    /\ IF latched /\ elapsed >= TIMEOUT
       THEN rpc' = "done" /\ UNCHANGED <<latched, elapsed>>
       ELSE IF ~latched /\ done_sending
       THEN rpc' = "recv" /\ latched' = TRUE /\ elapsed' = 0
       ELSE rpc' = "recv" /\ UNCHANGED <<latched, elapsed>>
    /\ UNCHANGED <<hosts, requests, results, done_sending, spc, si, rhost, ppc, pout,
                   plog, notPing>>

\* a lookup that falls back to the first registration for an unknown identifier
LookupOrFirst(map, id) ==
    IF id \in DOMAIN map THEN [some |-> TRUE, host |-> map[id]]
    ELSE IF 0 \in DOMAIN map THEN [some |-> TRUE, host |-> map[0]]
    ELSE [some |-> FALSE, host |-> <<>>]

\* the table lookup of an echo reply: `ids.get(&id).cloned()`
Lookup(map, id) ==
    IF id \in DOMAIN map THEN [some |-> TRUE, host |-> map[id]]
    ELSE [some |-> FALSE, host |-> <<>>]

\* receiver: next_with_timeout(1 ms) hands over a packet
ReceiverPacket ==
    /\ rpc = "recv"
    /\ plog.packets < MaxPackets
    /\ \E packet \in IcmpPackets :
          /\ IF packet.type # "EchoReply"
             THEN rpc' = "check" /\ UNCHANGED rhost
                  /\ plog' = [plog EXCEPT !.packets = @ + 1]
             ELSE IF Len(packet.payload) < 4
             THEN rpc' = "panicked" /\ UNCHANGED rhost
                  /\ plog' = [plog EXCEPT !.packets = @ + 1]
             ELSE LET id == PayloadId(packet.payload)
                      host_option == Lookup(requests, id)
                  IN  /\ plog' = [plog EXCEPT
                                !.packets = @ + 1,
                                !.replies = @ \cup {id},
                                !.from = @ \cup {packet.addr},
                                !.lost = @ \/ (~host_option.some
                                               /\ \E i \in plog.sent : Identifier(i) = id)]
                      /\ IF host_option.some
                         THEN rpc' = "push" /\ rhost' = host_option.host
                         ELSE rpc' = "check" /\ UNCHANGED rhost
    /\ UNCHANGED <<hosts, requests, results, done_sending, spc, si, latched, elapsed,
                   ppc, pout, notPing>>

\* receiver: push {host, is_up: true, response_time: Some(..)}
ReceiverPushUp ==
    /\ rpc = "push"
    /\ results' = Append(results, PingResult(rhost, TRUE))
    /\ rpc' = "check"
    /\ UNCHANGED <<hosts, requests, done_sending, spc, si, rhost, latched, elapsed,
                   ppc, pout, plog, notPing>>

\* receiver: next_with_timeout(1 ms) returns Ok(None)
ReceiverTimeout ==
    /\ rpc = "recv"
    /\ rpc' = "check"
    /\ UNCHANGED <<hosts, requests, results, done_sending, spc, si, rhost, latched,
                   elapsed, ppc, pout, plog, notPing>>

\* receiver: next_with_timeout returns Err(_) => break
ReceiverError ==
    /\ rpc = "recv"
    /\ rpc' = "done"
    /\ UNCHANGED <<hosts, requests, results, done_sending, spc, si, rhost, latched,
                   elapsed, ppc, pout, plog, notPing>>

\* time passes while the receiver waits in next_with_timeout
Tick ==
    /\ rpc = "recv"
    /\ latched
    /\ elapsed < TIMEOUT
    /\ elapsed' = elapsed + 1
    /\ UNCHANGED <<hosts, requests, results, done_sending, spc, si, rpc, rhost,
                   latched, ppc, pout, plog, notPing>>

\* ping_scan: both joins done, the result list is returned; a receiver that
\* panicked makes `receiver_handle.join().unwrap()` panic
PingReturn ==
    /\ ppc = "running"
    /\ spc = "done"
    /\ rpc \in {"done", "panicked"}
    /\ IF rpc = "done"
       THEN ppc' = "returned" /\ pout' = results
       ELSE ppc' = "panicked" /\ UNCHANGED pout
    /\ UNCHANGED <<hosts, requests, results, done_sending, spc, si, rpc, rhost,
                   latched, elapsed, plog, notPing>>

PingNext ==
    \/ SenderRegister \/ SenderSend \/ SenderPushDown \/ SenderFinish
    \/ ReceiverCheck \/ ReceiverPacket \/ ReceiverPushUp \/ ReceiverTimeout
    \/ ReceiverError \/ Tick \/ PingReturn

(***************************************************************************)
(* tcp_scan: the main thread sends one SYN per target/port pair while the  *)
(* listener thread records SYN+ACK packets in the shared results map.      *)
(***************************************************************************)
\* TcpFlags::SYN, TcpFlags::ACK
SYN == 2
ACK == 16

\* the port lists handed to tcp_scan
PortLists == {<<>>, <<443, 80>>}

\* the addresses packets come from: the targets' and a stranger's
PacketAddrs == Addrs \cup {<<10, 0, 0, 9>>}

\* the TCP packets that can reach the raw socket: from the addresses scans are
\* given, with flags SYN|ACK, RST|ACK, SYN alone or SYN|ACK|PSH, and a SYN|ACK
\* from a stranger
TcpPackets ==
    {[addr |-> a, source |-> p, flags |-> f] :
        a \in Addrs, p \in {80, 443}, f \in {18, 20, 2, 26}}
    \cup {[addr |-> <<10, 0, 0, 9>>, source |-> 80, flags |-> 18]}

\* `for ip in &targets { results_map.insert(*ip, Vec::new()); }`
InitialResults == [a \in {targets[i] : i \in 1..Len(targets)} |-> <<>>]

\* the conversion without the sort
OpenPortsUnsorted(map, ip) ==
    Dedup(IF ip \in DOMAIN map THEN map[ip] ELSE <<>>)

\* `results_map.get(ip).cloned().unwrap_or_default()`, sorted and deduplicated
OpenPorts(map, ip) ==
    Dedup(Sort(IF ip \in DOMAIN map THEN map[ip] ELSE <<>>))

\* `targets.iter().map(|ip| ScanResult { ip, open_ports }).collect()`
ScanResults(map) ==
    [i \in 1..Len(targets) |->
        [ip |-> targets[i], open_ports |-> OpenPorts(map, targets[i])]]

\* the pair the send loop is at: target index and port index (1-based)
PairCount == Len(targets) * Len(ports)

\* what tx.send_to can answer when it does not fail with OS error 105: Ok, an
\* error that carries another OS code, an error that carries none
SendOutcomes == {"ok", "os_error", "error"}

\* main: send_tcp_packet for the current pair returns without a retry: the
\* send was Ok, or failed without an OS code (logged with eprintln), or failed
\* with an OS code other than 105 (nothing is done); the loop moves on
SendPair ==
    /\ tpc = "send"
    /\ tk < PairCount
    /\ \E outcome \in SendOutcomes :
          /\ outcome # "ok" => tlog.retries + tlog.errors < MaxSendFailures
          /\ tlog' = [tlog EXCEPT !.errors = IF outcome = "ok" THEN @ ELSE @ + 1,
                                   !.logged = IF outcome = "error" THEN @ + 1 ELSE @]
    /\ tk' = tk + 1
    /\ UNCHANGED <<targets, ports, timeout, tresults, tpc, lpc, lclock, tout, notTcp>>

\* main: the send fails with OS error 105: sleep 500 ms and call
\* send_tcp_packet again for the same packet
SendRetry ==
    /\ tpc = "send"
    /\ tk < PairCount
    /\ tlog.retries + tlog.errors < MaxSendFailures
    /\ tlog' = [tlog EXCEPT !.retries = @ + 1]
    /\ UNCHANGED <<targets, ports, timeout, tresults, tk, tpc, lpc, lclock, tout, notTcp>>

\* main: the loops are over
SendDone ==
    /\ tpc = "send"
    /\ tk = PairCount
    /\ tpc' = "join"
    /\ UNCHANGED <<targets, ports, timeout, tresults, tk, lpc, lclock, tout, tlog, notTcp>>

\* the expiry test with start_time taken inside the loop: the time measured at
\* the loop head is that of the current round, which has just begun
ListenerExpireRestarted ==
    /\ lpc = "loop"
    /\ 0 >= timeout
    /\ lpc' = "done"
    /\ UNCHANGED <<targets, ports, timeout, tresults, tk, tpc, lclock, tout, tlog, notTcp>>

\* listener: `while start_time.elapsed() < timeout` fails
ListenerExpire ==
    /\ lpc = "loop"
    /\ lclock >= timeout
    /\ lpc' = "done"
    /\ UNCHANGED <<targets, ports, timeout, tresults, tk, tpc, lclock, tout, tlog, notTcp>>

\* the flags test with `contains` in place of `==`
IsSynAckLoose(flags) ==
    /\ (flags \div SYN) % 2 = 1
    /\ (flags \div ACK) % 2 = 1

\* `tcp.get_flags() == TcpFlags::SYN | TcpFlags::ACK`
IsSynAck(flags) == flags = SYN + ACK

\* the listener tied to the send loop: once the sends are over a packet is
\* read and dropped
ListenerPacketWhileSending ==
    /\ lpc = "loop"
    /\ lclock < timeout
    /\ tlog.packets < MaxPackets
    /\ \E packet \in TcpPackets :
          /\ tlog' = [tlog EXCEPT !.packets = @ + 1,
                                   !.synacks[packet.addr] =
                                        IF packet.flags = 18
                                        THEN Append(@, packet.source) ELSE @]
          /\ IF IsSynAck(packet.flags) /\ packet.addr \in DOMAIN tresults
                /\ tpc = "send"
             THEN tresults' = [tresults EXCEPT ![packet.addr] = Append(@, packet.source)]
             ELSE UNCHANGED tresults
    /\ UNCHANGED <<targets, ports, timeout, tk, tpc, lpc, lclock, tout, notTcp>>

\* listener: next_with_timeout hands over a packet; a SYN|ACK from a key of
\* the map has its source port pushed
ListenerPacket ==
    /\ lpc = "loop"
    /\ lclock < timeout
    /\ tlog.packets < MaxPackets
    /\ \E packet \in TcpPackets :
          /\ tlog' = [tlog EXCEPT !.packets = @ + 1,
                                   !.synacks[packet.addr] =
                                        IF packet.flags = 18
                                        THEN Append(@, packet.source) ELSE @]
          /\ IF IsSynAck(packet.flags) /\ packet.addr \in DOMAIN tresults
             THEN tresults' = [tresults EXCEPT ![packet.addr] = Append(@, packet.source)]
             ELSE UNCHANGED tresults
    /\ UNCHANGED <<targets, ports, timeout, tk, tpc, lpc, lclock, tout, notTcp>>

\* listener: next_with_timeout returns Ok(None) => break
ListenerNone ==
    /\ lpc = "loop"
    /\ lclock < timeout
    /\ lpc' = "done"
    /\ UNCHANGED <<targets, ports, timeout, tresults, tk, tpc, lclock, tout, tlog, notTcp>>

\* listener: next_with_timeout returns Err(_): sleep 1 ms and go round again
ListenerError ==
    /\ lpc = "loop"
    /\ lclock < timeout
    /\ UNCHANGED <<targets, ports, timeout, tresults, tk, tpc, lpc, lclock, tout, tlog,
                   notTcp>>

\* time passes while the listener runs
ListenerTick ==
    /\ lpc = "loop"
    /\ lclock < timeout
    /\ lclock' = lclock + 1
    /\ UNCHANGED <<targets, ports, timeout, tresults, tk, tpc, lpc, tout, tlog, notTcp>>

\* main: receiver_handle.join() returns, the results are converted and returned
TcpReturn ==
    /\ tpc = "join"
    /\ lpc = "done"
    /\ tout' = ScanResults(tresults)
    /\ tpc' = "returned"
    /\ UNCHANGED <<targets, ports, timeout, tresults, tk, lpc, lclock, tlog, notTcp>>

TcpNext ==
    \/ SendPair \/ SendRetry \/ SendDone \/ ListenerExpire \/ ListenerPacket
    \/ ListenerNone \/ ListenerError \/ ListenerTick \/ TcpReturn

\* synacks: per sending address, the source ports of the packets received
\* whose flags byte was 0x12, in arrival order
EmptyTcpLog ==
    [packets |-> 0, synacks |-> [a \in PacketAddrs |-> <<>>], retries |-> 0,
     errors |-> 0, logged |-> 0]

(***************************************************************************)
(* Claims about the result store                                           *)
(***************************************************************************)
RECURSIVE SortedSeqOf(_)
\* the elements of a set of integers, ascending
SortedSeqOf(S) ==
    IF S = {} THEN <<>>
    ELSE LET m == CHOOSE x \in S : \A y \in S : x <= y
         IN  <<m>> \o SortedSeqOf(S \ {m})

\* sort(dedup(ports))
SortDedup(list) == SortedSeqOf({list[i] : i \in 1..Len(list)})

IsWrite ==
    call.op \in {"save_rows", "add_ping_results", "add_tcp_results", "add_service_results"}

\* index i holds the last record of rows with its host_id
LastOfKey(rows, i) == \A j \in (i + 1)..Len(rows) : rows[j].id # rows[i].id

\* C1 as stated: after a successful save_rows(rs), get_row_by_host(r.host_id)
\* returns, for every r in rs, ports = sort(dedup(r.ports)) and services =
\* r.services.
C1_SortedDedupReadBack ==
    (IsWrite /\ call.status = "Ok") =>
        \A i \in 1..Len(call.rows) :
            LET r == call.rows[i]
                g == get_row_by_host(db, r.id, NoFault)
            IN  /\ g.kind = "Some"
                /\ g.row.ports = SortDedup(r.ports)
                /\ g.row.services = r.services

\* C1 amended: after a successful save_rows(rs), for every r in rs that is the
\* last record of rs with its host_id, get_row_by_host(r.host_id) returns
\* ports = r.ports (same order, same repetitions) and services = r.services.
C1_LastWriteReadBack ==
    (IsWrite /\ call.status = "Ok") =>
        \A i \in 1..Len(call.rows) :
            LastOfKey(call.rows, i) =>
                LET r == call.rows[i]
                    g == get_row_by_host(db, r.id, NoFault)
                IN  /\ g.kind = "Some"
                    /\ g.row.id = r.id
                    /\ g.row.ports = r.ports
                    /\ g.row.services = r.services

\* a successful save of two records of one host with different ports, one of
\* them unsorted with a repetition
C1_Witness ==
    /\ call.op = "save_rows"
    /\ call.status = "Ok"
    /\ \E i, j \in 1..Len(call.rows) :
          /\ i < j
          /\ call.rows[i].id = call.rows[j].id
          /\ call.rows[i].ports # call.rows[j].ports
          /\ call.rows[j].ports # SortDedup(call.rows[j].ports)

\* the stored rows whose comma-joined port string contains s
RowsHoldingPort(d, s) ==
    {fetch_row(d, k).row :
        k \in {x \in d.default : Contains(join_nums(fetch_row(d, x).row.ports, Comma), s)}}

\* C4: get_rows_by_port(s) returns exactly the stored host records whose
\* comma-joined port string contains s, each once; with s empty it returns
\* every stored row.
C4_ScanExact ==
    (call.op = "get_rows_by_port" /\ call.fault = NoFault) =>
        /\ {call.out[i] : i \in 1..Len(call.out)} = RowsHoldingPort(db, call.arg)
        /\ \A i, j \in 1..Len(call.out) : i # j => call.out[i] # call.out[j]
        /\ call.arg = <<>> => Len(call.out) = Cardinality(db.default)

\* get_rows_by_port("80") returned a row holding port 80 and a row holding
\* port 8080, and left a stored row out
C4_Witness ==
    /\ call.op = "get_rows_by_port"
    /\ call.fault = NoFault
    /\ call.arg = <<56, 48>>
    /\ \E i, j \in 1..Len(call.out) :
          /\ call.out[i].ports = <<80, 443, 80>>
          /\ call.out[j].ports = <<8080>>

\* what the read operations show of a store
Observable(d) ==
    [host    |-> [a \in Addrs |-> get_row_by_host(d, IpToString(a), NoFault)],
     port    |-> [s \in Needles |-> get_rows_by_port(d, s, NoFault)],
     service |-> [s \in Needles |-> get_rows_by_service(d, s, NoFault)]]

\* C5: a second successful save_rows(rs) right after a successful
\* save_rows(rs) leaves the observable store state as the first one left it.
C5_SaveIdempotent ==
    (call.op = "save_rows" /\ call.again /\ call.status = "Ok") =>
        Observable(db) = Observable(call.before)

\* save_rows ran twice on rows that span two chunks and name a host twice
C5_Witness ==
    /\ call.op = "save_rows"
    /\ call.again
    /\ call.status = "Ok"
    /\ Len(call.rows) > BATCH_SIZE
    /\ call.rows[1].id = call.rows[Len(call.rows)].id
    /\ call.rows[1].services # call.rows[Len(call.rows)].services

\* C6: every key of the default column has an entry in the ports column and
\* in the services column, in every reachable store state.
C6_RowExistence ==
    \A k \in db.default : k \in DOMAIN db.ports /\ k \in DOMAIN db.services

\* a write failed on its second chunk after the first chunk had created a row
C6_Witness ==
    /\ IsWrite
    /\ call.fault.kind = "write"
    /\ call.fault.chunk = 2
    /\ db.default # call.before.default

\* C11: the store preserves the ports sequence as written: for every host a
\* write has stored, get_row_by_host returns the ports of the last record
\* committed for that key, in the same order and with the same repetitions
\* ([80,443,80] reads back [80,443,80]); nothing is sorted or deduplicated.
C11_PortsPreserved ==
    /\ \A k \in DOMAIN written :
          LET g == get_row_by_host(db, k, NoFault) IN
          g.kind = "Some" /\ g.row.ports = written[k].ports
    /\ (call.op = "get_row_by_host" /\ call.fault = NoFault
            /\ call.arg \in DOMAIN written) =>
          (call.found.kind = "Some" /\ call.found.row.ports = written[call.arg].ports)

\* get_row_by_host returned [80,443,80] for a host whose last record had
\* these ports
C11_Witness ==
    /\ call.op = "get_row_by_host"
    /\ call.fault = NoFault
    /\ call.found.kind = "Some"
    /\ call.found.row.ports = <<80, 443, 80>>
    /\ call.arg \in DOMAIN written
    /\ written[call.arg].ports = <<80, 443, 80>>

\* the keys the rows of a call name
KeysOf(rows) == {rows[i].id : i \in 1..Len(rows)}

\* C12: add_tcp_results changes only the ports column of the hosts it is
\* given: a host stored with non-empty services reads back the same services
\* after the call, and the rows of hosts the call does not name are unchanged
\* in every column.
C12_TcpKeepsServices ==
    call.op = "add_tcp_results" =>
        \A a \in Addrs :
            LET k == IpToString(a)
                b == get_row_by_host(call.before, k, NoFault)
                g == get_row_by_host(db, k, NoFault)
            IN  /\ (k \in KeysOf(call.rows) /\ b.kind = "Some" /\ b.row.services # <<>>) =>
                      (g.kind = "Some" /\ g.row.services = b.row.services)
                /\ k \notin KeysOf(call.rows) => g = b

\* C14: reads fail quietly and writes fail loudly: when the open fails
\* get_row_by_host returns absent, when the open or an iteration step fails
\* get_rows_by_port and get_rows_by_service return the empty list, and when
\* the open, a batch write or the flush fails save_rows and the add_* calls
\* return the error.
C14_ReadsQuietWritesLoud ==
    /\ (call.op = "get_row_by_host" /\ call.fault # NoFault) =>
          call.found = [kind |-> "None"]
    /\ (call.op \in {"get_rows_by_port", "get_rows_by_service"} /\ call.fault # NoFault) =>
          call.out = <<>>
    /\ (IsWrite /\ call.fault # NoFault) => call.status = "Err"

\* an add_* call whose flush failed after its batches were committed
C14_Witness ==
    /\ call.op \in {"add_ping_results", "add_tcp_results", "add_service_results"}
    /\ call.fault.kind = "flush"
    /\ call.status = "Err"
    /\ db # call.before

\* the columns of key k in store d: presence in default, the ports value, the
\* services value
Columns(d, k) ==
    [default  |-> k \in d.default,
     ports    |-> IF k \in DOMAIN d.ports THEN <<d.ports[k]>> ELSE <<>>,
     services |-> IF k \in DOMAIN d.services THEN <<d.services[k]>> ELSE <<>>]

\* the columns a committed record r leaves for its key
ColumnsOf(r) ==
    [default  |-> TRUE,
     ports    |-> <<join_nums(r.ports, Comma)>>,
     services |-> <<r.services>>]

\* the index of the last record of rows[1..n] with key k, 0 when there is none
LastIndex(rows, n, k) ==
    LET S == {i \in 1..n : rows[i].id = k} IN
    IF S = {} THEN 0 ELSE CHOOSE i \in S : \A j \in S : j <= i

\* C22: save_rows commits its input as whole chunks of at most BATCH_SIZE
\* records in input order, each chunk atomically: when the commit of chunk k
\* fails the call returns the error, every record of the chunks before k is
\* stored with its three columns, and no column of a record of chunk k or a
\* later chunk has been written; a flush that fails finds all chunks
\* committed.
C22_ChunkAtomic ==
    (IsWrite /\ call.fault.kind \in {"write", "flush"}) =>
        LET n == IF call.fault.kind = "flush" THEN Len(call.rows)
                 ELSE (call.fault.chunk - 1) * BATCH_SIZE
        IN  /\ call.status = "Err"
            /\ n <= Len(call.rows)
            /\ \A a \in Addrs :
                  LET k == IpToString(a)
                      i == LastIndex(call.rows, n, k)
                  IN  Columns(db, k) = IF i = 0 THEN Columns(call.before, k)
                                       ELSE ColumnsOf(call.rows[i])

\* the write of the second chunk failed: the first chunk's records are
\* stored, a host named only in the second chunk has no row
C22_Witness ==
    /\ IsWrite
    /\ call.fault.kind = "write"
    /\ call.fault.chunk = 2
    /\ db # call.before
    /\ \E i \in (BATCH_SIZE + 1)..Len(call.rows) :
          /\ call.rows[i].id \notin db.default
          /\ \A j \in 1..BATCH_SIZE : call.rows[j].id # call.rows[i].id

(***************************************************************************)
(* Claims about ping_scan                                                  *)
(***************************************************************************)
\* C8: in the list ping_scan returns, each host appears at most once with
\* is_up = true, whatever replies arrived.
C8_UpAtMostOnce ==
    ppc = "returned" =>
        \A i, j \in 1..Len(pout) :
            (i # j /\ pout[i].is_up /\ pout[j].is_up) => pout[i].host # pout[j].host

\* the targets (as indices) whose probe failed / whose identifier a reply carried
FailedTargets == plog.failed
RepliedTargets == {i \in 0..(Len(hosts) - 1) : Identifier(i) \in plog.replies}

\* C9: every entry of the returned list is an is_up=false entry of a target
\* whose send failed or an is_up=true entry of a target whose identifier an
\* EchoReply carried; a target sent successfully and not replied to has no
\* entry; no targets, no entries.
C9_SparseOutput ==
    ppc = "returned" =>
        /\ \A n \in 1..Len(pout) :
              IF pout[n].is_up
              THEN \E i \in RepliedTargets : hosts[i + 1] = pout[n].host
              ELSE \E i \in FailedTargets : hosts[i + 1] = pout[n].host
        /\ \A a \in Addrs :
              (\A i \in FailedTargets \cup RepliedTargets : hosts[i + 1] # a)
                  => \A n \in 1..Len(pout) : pout[n].host # a
        /\ hosts = <<>> => pout = <<>>

\* a sweep returned a down entry and an up entry and left out a target whose
\* send succeeded and that no reply answered
C9_Witness ==
    /\ ppc = "returned"
    /\ \E n, m \in 1..Len(pout) : pout[n].is_up /\ ~pout[m].is_up
    /\ \E i \in plog.sent :
          /\ i \notin RepliedTargets
          /\ \A n \in 1..Len(pout) : pout[n].host # hosts[i + 1]

\* C10: with at most 2^16 targets every target has its own identifier, its
\* index: when the sender is done the table holds one entry per target and no
\* insert has replaced an earlier one.
C10_DistinctIdentifiers ==
    (spc = "done" /\ Len(hosts) <= IdSpace) =>
        /\ \A i, j \in 0..(Len(hosts) - 1) : i # j => Identifier(i) # Identifier(j)
        /\ Cardinality(DOMAIN requests) = Len(hosts)
        /\ \A i \in 0..(Len(hosts) - 1) : requests[i] = hosts[i + 1]
        /\ ~plog.overwritten

\* the sender finished a list of exactly as many targets as there are
\* identifiers, two of them the same address
C10_Witness ==
    /\ spc = "done"
    /\ Len(hosts) = IdSpace
    /\ hosts[1] = hosts[Len(hosts)]

\* the hosts of the is_up=false entries of a result list, in list order
DownHosts(list) ==
    LET down == SelectSeq(list, LAMBDA e : ~e.is_up) IN
    [n \in 1..Len(down) |-> down[n].host]

\* the targets whose send failed and whose loop iteration is over, ascending
FailedDone == SortedSeqOf({i \in plog.failed : i < si})

\* C15: the sender calls send_ping once per target, in input order; each
\* target whose send failed has exactly one {host, is_up=false, response_time
\* absent} entry in the results, appended before the next target is dealt
\* with, and a target whose send succeeded has none.
C15_OneProbePerTarget ==
    /\ \A n \in 1..Len(plog.attempts) : plog.attempts[n] = n - 1
    /\ Len(plog.attempts) = IF spc = "push" THEN si + 1 ELSE si
    /\ spc = "done" => Len(plog.attempts) = Len(hosts)
    /\ DownHosts(results) = [n \in 1..Len(FailedDone) |-> hosts[FailedDone[n] + 1]]
    /\ \A n \in 1..Len(results) : ~results[n].is_up => ~results[n].response_time

\* the sender is done with a list that names one host twice: its first send
\* failed, its second succeeded
C15_Witness ==
    /\ spc = "done"
    /\ Len(hosts) >= 2
    /\ hosts[1] = hosts[2]
    /\ 0 \in plog.failed
    /\ 1 \in plog.sent

\* C16: whenever probe i is transmitted the table maps the identifier of
\* target i to targets[i], in every interleaving; no reply carrying the
\* sequence number of a probe already transmitted is dropped for want of a
\* table entry.
C16_RegisteredBeforeSend ==
    /\ spc \in {"send", "push"} =>
          /\ Identifier(si) \in DOMAIN requests
          /\ requests[Identifier(si)] = hosts[si + 1]
    /\ \A i \in plog.sent \cup plog.failed : Identifier(i) \in DOMAIN requests
    /\ ~plog.lost

\* while the sender is still sending, the receiver resolved a reply to a
\* probe already transmitted
C16_Witness ==
    /\ rpc = "push"
    /\ spc = "send"
    /\ \E i \in plog.sent : Identifier(i) \in plog.replies /\ rhost = hosts[i + 1]

\* C17: the receiver stops receiving only after the sender has set
\* done_sending and only once TIMEOUT has elapsed since the receiver latched
\* the deadline; it leaves its loop for no other reason before that.
C17_ExitOnlyAfterDrain ==
    rpc \in {"done", "panicked"} =>
        /\ spc = "done"
        /\ done_sending
        /\ latched
        /\ elapsed >= TIMEOUT

\* C18: ping_scan always terminates: under fair scheduling the sender
\* finishes, the receiver latches the deadline and leaves its loop, and
\* ping_scan returns the accumulated results.
C18_Terminates == <>(ppc = "returned")

\* C23: a host is in the returned list with is_up=true only if an EchoReply
\* that came from the host's own address was received (a reply from another
\* address carrying a registered sequence number marks nobody up), and a host
\* with an is_up=false entry has no is_up=true entry.
C23_UpOnlyFromOwnAddress ==
    ppc = "returned" =>
        /\ \A n \in 1..Len(pout) : pout[n].is_up => pout[n].host \in plog.from
        /\ \A n, m \in 1..Len(pout) :
              (pout[n].is_up /\ ~pout[m].is_up) => pout[n].host # pout[m].host

(***************************************************************************)
(* Claims about tcp_scan                                                   *)
(***************************************************************************)
\* C3: tcp_scan returns one ScanResult per entry of the target list, in input
\* order, and every open_ports list is strictly ascending (sorted, no
\* duplicates), whatever packets the listener received.
C3_OutputShape ==
    tpc = "returned" =>
        /\ Len(tout) = Len(targets)
        /\ \A i \in 1..Len(tout) :
              /\ tout[i].ip = targets[i]
              /\ \A m, n \in 1..Len(tout[i].open_ports) :
                    m < n => tout[i].open_ports[m] < tout[i].open_ports[n]
        /\ targets = <<>> => tout = <<>>

\* a scan returned for a target listed twice whose SYN+ACKs arrived out of
\* port order
C3_Witness ==
    /\ tpc = "returned"
    /\ \E i, j \in 1..Len(targets) :
          /\ i # j
          /\ targets[i] = targets[j]
          /\ Len(tresults[targets[i]]) = 2
          /\ tresults[targets[i]][1] > tresults[targets[i]][2]

\* the elements of a list
Elems(list) == {list[i] : i \in 1..Len(list)}

\* C13: every port in a target's open_ports is one of the input ports; with
\* an empty ports list tcp_scan returns one record per target and every
\* open_ports is empty, whatever packets reached the listener.
C13_OnlyProbedPorts ==
    tpc = "returned" =>
        /\ Len(tout) = Len(targets)
        /\ \A i \in 1..Len(tout) : Elems(tout[i].open_ports) \subseteq Elems(ports)
        /\ ports = <<>> => \A i \in 1..Len(tout) : tout[i].open_ports = <<>>

\* C19: the listener records a port only for a packet whose flags are exactly
\* SYN|ACK and whose source address is a target: each target's list in the
\* results map is the list of source ports of the SYN|ACK packets received
\* from it, packets with other flags or from other addresses change nothing,
\* the map's key set is the set of targets, and port p is in the open_ports
\* returned for t iff such a packet came from t with source port p.
C19_ExactSynAck ==
    /\ tpc # "off" => DOMAIN tresults = Elems(targets)
    /\ \A t \in DOMAIN tresults : tresults[t] = tlog.synacks[t]
    /\ tpc = "returned" =>
          \A i \in 1..Len(tout) :
              Elems(tout[i].open_ports) = Elems(tlog.synacks[targets[i]])

\* a scan returned after a SYN|ACK from a target and a packet with other
\* flags: one port recorded, two packets received
C19_Witness ==
    /\ tpc = "returned"
    /\ tlog.packets = 2
    /\ \E t \in DOMAIN tresults :
          /\ Len(tresults[t]) = 1
          /\ \A a \in PacketAddrs \ {t} : tlog.synacks[a] = <<>>

\* C20: every send that fails with an error other than OS error 105, with
\* or without an OS error code, is logged, its pair is skipped and the scan
\* goes on to the next pair until all pairs are dealt with; a send that fails
\* with 105 is made again for the same pair.
C20_ErrorsLogged ==
    /\ tlog.logged = tlog.errors
    /\ tpc \in {"join", "returned"} => tk = PairCount

\* C21: the port listener always terminates: it stops when a wait returns no
\* packet or once the timeout has elapsed since its start, whatever packets
\* and receive errors come in; and tcp_scan returns only after every
\* target/port pair has been attempted and the listener has terminated.
C21_ListenerTerminates ==
    /\ <>(lpc = "done")
    /\ [](tpc = "returned" => (tk = PairCount /\ lpc = "done"))

\* a scan returned whose listener received two packets and then ran into its
\* timeout
C21_Witness ==
    /\ tpc = "returned"
    /\ lpc = "done"
    /\ timeout > 0
    /\ lclock >= timeout
    /\ tlog.packets >= 2

\* C24 as stated: the listener outlives the send loop: in every interleaving
\* it is still receiving while a SYN remains to be sent, the last one
\* included, also when the sends take longer than the timeout.
C24_ListenerOutlivesSend ==
    (tpc = "send" /\ tk < PairCount) => lpc = "loop"

\* C24 amended: the listener's lifetime is not tied to the send loop.  A step
\* of the send loop leaves the listener, its clock and the results map as
\* they are; a SYN|ACK the listener receives from a target is recorded
\* whether the sends are still going on or are over; a listener that has
\* stopped (no packet, or timeout) stays stopped and records nothing more,
\* whatever is sent afterwards; tcp_scan returns only once it has stopped.
C24_ListenerIndependent ==
    [][/\ (tk' # tk \/ tpc' # tpc) =>
             (lpc' = lpc /\ lclock' = lclock /\ tresults' = tresults)
       /\ \A t \in DOMAIN tresults :
             tlog'.synacks[t] # tlog.synacks[t] =>
                 tresults'[t] = Append(tresults[t],
                                       tlog'.synacks[t][Len(tlog'.synacks[t])])
       /\ lpc = "done" => (lpc' = "done" /\ tresults' = tresults)
       /\ tpc' = "returned" => lpc = "done"]_vars

\* the listener recorded a SYN|ACK and stopped while pairs were still to be
\* sent
C24_Witness ==
    /\ lpc = "done"
    /\ tpc = "send"
    /\ tk < PairCount
    /\ \E t \in DOMAIN tresults : tresults[t] # <<>>

(***************************************************************************)
(* Claims about the codec                                                  *)
(***************************************************************************)
\* C2: decode(r.host_id, encode(r)) returns a record equal to r in id, ports
\* and services, for every record r, also one whose services are non-empty.
C2_RoundTrip ==
    (cpc = "decoded" /\ cin.kind = "rec") =>
        (cdec.kind = "Some" /\ cdec.row = cin.row)

\* C7: decode never raises: it returns absent for a buffer shorter than 4
\* bytes and for a buffer of 8 or more bytes whose field count is 0, and it
\* never panics on any buffer.
C7_DecodeNeverRaises ==
    (cpc = "decoded" /\ cin.kind = "buf") =>
        /\ cdec.kind # "panic"
        /\ Len(cin.data) < 4 => cdec.kind = "None"
        /\ (Len(cin.data) >= 8 /\ from_le_bytes(cin.data, 0) = 0) => cdec.kind = "None"

(***************************************************************************)
(* Specifications, one per subsystem                                       *)
(***************************************************************************)
InitCodec ==
    /\ cin \in {[kind |-> "rec", row |-> r] : r \in CodecRecords}
               \cup {[kind |-> "buf", key |-> IpToString(<<10, 0, 0, 1>>), data |-> d] :
                        d \in RawBuffers(MaxBufLen)}
    /\ cenc = <<>>
    /\ cdec = [kind |-> "idle"]
    /\ cpc = "start"
    /\ db = EmptyDb
    /\ call = IdleCall
    /\ written = <<>>
    /\ hosts = <<>>
    /\ requests = <<>>
    /\ results = <<>>
    /\ done_sending = FALSE
    /\ spc = "off"
    /\ si = 0
    /\ rpc = "off"
    /\ rhost = <<>>
    /\ latched = FALSE
    /\ elapsed = 0
    /\ ppc = "off"
    /\ pout = <<>>
    /\ plog = EmptyLog
    /\ targets = <<>>
    /\ ports = <<>>
    /\ timeout = 0
    /\ tresults = <<>>
    /\ tk = 0
    /\ tpc = "off"
    /\ lpc = "off"
    /\ lclock = 0
    /\ tout = <<>>
    /\ tlog = EmptyTcpLog

InitStore ==
    /\ cin = [kind |-> "none"]
    /\ cenc = <<>>
    /\ cdec = [kind |-> "idle"]
    /\ cpc = "off"
    /\ db = EmptyDb
    /\ call = IdleCall
    /\ written = <<>>
    /\ hosts = <<>>
    /\ requests = <<>>
    /\ results = <<>>
    /\ done_sending = FALSE
    /\ spc = "off"
    /\ si = 0
    /\ rpc = "off"
    /\ rhost = <<>>
    /\ latched = FALSE
    /\ elapsed = 0
    /\ ppc = "off"
    /\ pout = <<>>
    /\ plog = EmptyLog
    /\ targets = <<>>
    /\ ports = <<>>
    /\ timeout = 0
    /\ tresults = <<>>
    /\ tk = 0
    /\ tpc = "off"
    /\ lpc = "off"
    /\ lclock = 0
    /\ tout = <<>>
    /\ tlog = EmptyTcpLog

InitPing ==
    /\ cin = [kind |-> "none"]
    /\ cenc = <<>>
    /\ cdec = [kind |-> "idle"]
    /\ cpc = "off"
    /\ db = EmptyDb
    /\ call = IdleCall
    /\ written = <<>>
    /\ hosts \in SeqsUpTo(Addrs, MaxHosts)
    /\ requests = <<>>
    /\ results = <<>>
    /\ done_sending = FALSE
    /\ spc = "register"
    /\ si = 0
    /\ rpc = "check"
    /\ rhost = <<>>
    /\ latched = FALSE
    /\ elapsed = 0
    /\ ppc = "running"
    /\ pout = <<>>
    /\ plog = EmptyLog
    /\ targets = <<>>
    /\ ports = <<>>
    /\ timeout = 0
    /\ tresults = <<>>
    /\ tk = 0
    /\ tpc = "off"
    /\ lpc = "off"
    /\ lclock = 0
    /\ tout = <<>>
    /\ tlog = EmptyTcpLog

InitTcp ==
    /\ cin = [kind |-> "none"]
    /\ cenc = <<>>
    /\ cdec = [kind |-> "idle"]
    /\ cpc = "off"
    /\ db = EmptyDb
    /\ call = IdleCall
    /\ written = <<>>
    /\ hosts = <<>>
    /\ requests = <<>>
    /\ results = <<>>
    /\ done_sending = FALSE
    /\ spc = "off"
    /\ si = 0
    /\ rpc = "off"
    /\ rhost = <<>>
    /\ latched = FALSE
    /\ elapsed = 0
    /\ ppc = "off"
    /\ pout = <<>>
    /\ plog = EmptyLog
    /\ targets \in SeqsUpTo(Addrs, MaxTargets)
    /\ ports \in PortLists
    /\ timeout \in 0..MaxTimeout
    /\ tresults = InitialResults
    /\ tk = 0
    /\ tpc = "send"
    /\ lpc = "loop"
    /\ lclock = 0
    /\ tout = <<>>
    /\ tlog = EmptyTcpLog

SpecCodec == InitCodec /\ [][CodecNext]_vars

SpecStore == InitStore /\ [][StoreNext]_vars

SpecPing == InitPing /\ [][PingNext]_vars

\* ping_scan with its two threads scheduled fairly: each thread takes its next
\* step, a receive call returns, and time passes while the receiver waits
PingFairness ==
    /\ WF_vars(SenderRegister) /\ WF_vars(SenderSend) /\ WF_vars(SenderPushDown)
    /\ WF_vars(SenderFinish)
    /\ WF_vars(ReceiverCheck) /\ WF_vars(ReceiverPushUp)
    /\ WF_vars(ReceiverPacket \/ ReceiverTimeout \/ ReceiverError)
    /\ SF_vars(Tick)
    /\ WF_vars(PingReturn)

SpecPingFair == InitPing /\ [][PingNext]_vars /\ PingFairness

SpecTcp == InitTcp /\ [][TcpNext]_vars

\* tcp_scan with time passing for the listener: its clock advances while it
\* runs and the loop test is made once the timeout has elapsed
TcpFairness == WF_vars(ListenerTick) /\ WF_vars(ListenerExpire)

SpecTcpFair == InitTcp /\ [][TcpNext]_vars /\ TcpFairness

====
